---- MODULE Spec2Model ----
(***************************************************************************)
(* FastAPIwee: pydantic schemas derived from peewee models (pwpd.py) and   *)
(* the CRUD views and viewsets built on them (crud/).                      *)
(*                                                                         *)
(* Scope of the model.  The peewee models are those of the test suite      *)
(* (ParentTestModel, TestModel, ChildTestModel), two more that add a       *)
(* nullable foreign key, a float column and a text primary key, a model    *)
(* with a foreign key to itself and two models with foreign keys to each   *)
(* other; their type names are pairwise distinct.  One more model class    *)
(* is named TestModel as well and is used by SpecKeys only.                *)
(* hash(repr(config_values)) is drawn from HashAssignments, whose values   *)
(* have pairwise distinct letter encodings.                                *)
(*                                                                         *)
(* Six specifications share the module:                                    *)
(*   Spec         programs that call make_serializer, on models of         *)
(*                pairwise distinct type names                             *)
(*   SpecKeys     programs that call make_serializer, two of the models    *)
(*                sharing their type name                                  *)
(*   SpecSchema   one class definition through PwPdMeta, or one payload    *)
(*                validated by the write schema                            *)
(*   SpecGraph    calls of make_serializer and class definitions on models *)
(*                whose foreign keys form cycles                           *)
(*   SpecViewSet  AutoFastAPIViewSet(model, app, actions)                  *)
(*   SpecCrud     the application of example.py serving requests, two at   *)
(*                a time; the dependency of a write route and its endpoint *)
(*                are separate steps                                       *)
(***************************************************************************)
EXTENDS Integers, Sequences, FiniteSets, TLC

VARIABLES
    types,      \* the schema types created by make_serializer so far
    cache,      \* PwPdModel.__CACHE: name -> id of a schema type
    hashOf,     \* hash(repr(config_values)) of this process, per override set
    returned,   \* history: call arguments -> id the first successful call returned
    last,       \* history: the last make_serializer call and its outcome
    calls,      \* number of make_serializer calls made
    defined,    \* the schema class defined last, or the payload validated last
    defs,       \* number of schema classes defined and payloads validated
    db,         \* the rows of TestModel: primary key -> column values
    handler,    \* NotFoundExceptionHandler is registered on the app
    objData,    \* _obj_data of the create, update and part_update view instances
    req,        \* requests whose dependency has run and whose endpoint has not
    asked,      \* number of requests received
    resp,       \* history: the last response, with the rows before and after it
    deleted,    \* history: primary keys deleted and not created again
    routes,     \* app.routes: the routes registered on the application, in order
    built,      \* history: the last AutoFastAPIViewSet construction and its outcome
    mounts      \* number of AutoFastAPIViewSet constructions

schemaVars == <<types, cache, hashOf, returned, last, calls, defined, defs>>

crudVars == <<db, handler, objData, req, asked, resp, deleted>>

viewVars == <<routes, built, mounts>>

vars == <<schemaVars, crudVars, viewVars>>

(***************************************************************************)
(* Bounds                                                                  *)
(***************************************************************************)
MaxCalls == 3
MaxDefs == 1
MaxRequests == 3
MaxMounts == 1

(***************************************************************************)
(* peewee model metadata (Model._meta.fields, Model._meta.backrefs)        *)
(***************************************************************************)
NoModel == "-"

\* the models of a program whose model classes have pairwise distinct names; Node
\* refers to itself, Author and Book refer to each other
ModelOrder == <<"Parent", "Test", "Child", "Tag", "Note", "Node", "Author", "Book">>

ModelIds == {ModelOrder[i] : i \in DOMAIN ModelOrder}

\* ''.join(chars)
RECURSIVE Join(_)
Join(chars) == IF chars = <<>> THEN "" ELSE Head(chars) \o Join(Tail(chars))

\* Model.__name__, character by character; "Test2" is a second model class whose
\* __name__ is TestModel too (the class of another module), without relations
NameChars(m) ==
    CASE m = "Parent" -> <<"P","a","r","e","n","t","T","e","s","t","M","o","d","e","l">>
      [] m = "Test"   -> <<"T","e","s","t","M","o","d","e","l">>
      [] m = "Child"  -> <<"C","h","i","l","d","T","e","s","t","M","o","d","e","l">>
      [] m = "Tag"    -> <<"T","a","g">>
      [] m = "Note"   -> <<"N","o","t","e">>
      [] m = "Test2"  -> <<"T","e","s","t","M","o","d","e","l">>
      [] m = "Node"   -> <<"N","o","d","e">>
      [] m = "Author" -> <<"A","u","t","h","o","r">>
      [] m = "Book"   -> <<"B","o","o","k">>

\* Model.__name__
ModelName(m) == Join(NameChars(m))

Fld(name, cls, null, pk, default, rel, backref) ==
    [name |-> name, cls |-> cls, null |-> null, pk |-> pk,
     default |-> default, rel |-> rel, backref |-> backref]

\* Model._meta.fields, in declaration order
Fields(m) ==
    CASE m = "Parent" ->
           << Fld("id", "AutoField", FALSE, TRUE, "None", NoModel, "-"),
              Fld("text", "TextField", FALSE, FALSE, "None", NoModel, "-") >>
      [] m = "Test" ->
           << Fld("id", "AutoField", FALSE, TRUE, "None", NoModel, "-"),
              Fld("text", "TextField", FALSE, FALSE, "None", NoModel, "-"),
              Fld("number", "IntegerField", TRUE, FALSE, "None", NoModel, "-"),
              Fld("is_test", "BooleanField", FALSE, FALSE, "True", NoModel, "-"),
              Fld("related", "ForeignKeyField", FALSE, FALSE, "None", "Parent", "test_models") >>
      [] m = "Child" ->
           << Fld("id", "AutoField", FALSE, TRUE, "None", NoModel, "-"),
              Fld("test", "ForeignKeyField", FALSE, FALSE, "None", "Test", "childs") >>
      [] m = "Tag" ->
           << Fld("name", "CharField", FALSE, TRUE, "None", NoModel, "-") >>
      [] m = "Note" ->
           << Fld("id", "AutoField", FALSE, TRUE, "None", NoModel, "-"),
              Fld("tag", "ForeignKeyField", TRUE, FALSE, "None", "Tag", "notes"),
              Fld("score", "FloatField", TRUE, FALSE, "None", NoModel, "-") >>
      [] m = "Test2" ->
           << Fld("id", "AutoField", FALSE, TRUE, "None", NoModel, "-"),
              Fld("title", "CharField", FALSE, FALSE, "None", NoModel, "-") >>
      [] m = "Node" ->
           << Fld("id", "AutoField", FALSE, TRUE, "None", NoModel, "-"),
              Fld("parent", "ForeignKeyField", TRUE, FALSE, "None", "Node", "children") >>
      [] m = "Author" ->
           << Fld("id", "AutoField", FALSE, TRUE, "None", NoModel, "-"),
              Fld("favourite", "ForeignKeyField", TRUE, FALSE, "None", "Book", "fans") >>
      [] m = "Book" ->
           << Fld("id", "AutoField", FALSE, TRUE, "None", NoModel, "-"),
              Fld("author", "ForeignKeyField", FALSE, FALSE, "None", "Author", "books") >>

FieldSet(m) == {Fields(m)[i] : i \in DOMAIN Fields(m)}

FieldNames(m) == {f.name : f \in FieldSet(m)}

\* Model._meta.primary_key
PkField(m) == CHOOSE f \in FieldSet(m) : f.pk

\* ForeignKeyField.rel_field: the referenced column (the related model's primary key)
rel_field(f) == PkField(f.rel)

RECURSIVE FlatFKs(_)
FlatFKs(ms) ==
    IF ms = <<>> THEN <<>>
    ELSE LET m  == Head(ms)
             fk == SelectSeq(Fields(m), LAMBDA f : f.cls = "ForeignKeyField")
         IN  [i \in 1..Len(fk) |-> [backref |-> fk[i].backref, model |-> m, rel |-> fk[i].rel]]
             \o FlatFKs(Tail(ms))

\* Model._meta.backrefs: the foreign keys that point at m, with the model that owns each
Backrefs(m) == SelectSeq(FlatFKs(ModelOrder), LAMBDA b : b.rel = m)

BackrefNames(m) == {Backrefs(m)[i].backref : i \in DOMAIN Backrefs(m)}

\* field.__class__.__mro__ (peewee's class hierarchy)
FieldMRO(cls) ==
    CASE cls = "AutoField"       -> <<"AutoField", "IntegerField", "Field">>
      [] cls = "IntegerField"    -> <<"IntegerField", "Field">>
      [] cls = "FloatField"      -> <<"FloatField", "Field">>
      [] cls = "BooleanField"    -> <<"BooleanField", "Field">>
      [] cls = "TextField"       -> <<"TextField", "_StringField", "Field">>
      [] cls = "CharField"       -> <<"CharField", "_StringField", "Field">>
      [] cls = "ForeignKeyField" -> <<"ForeignKeyField", "Field">>

(***************************************************************************)
(* letter_hash                                                             *)
(***************************************************************************)
\* string.ascii_letters
ascii_letters ==
    << "a", "b", "c", "d", "e", "f", "g", "h", "i", "j", "k", "l", "m",
       "n", "o", "p", "q", "r", "s", "t", "u", "v", "w", "x", "y", "z",
       "A", "B", "C", "D", "E", "F", "G", "H", "I", "J", "K", "L", "M",
       "N", "O", "P", "Q", "R", "S", "T", "U", "V", "W", "X", "Y", "Z" >>

\* the decimal digits of str(n), n >= 0
RECURSIVE Digits(_)
Digits(n) == IF n < 10 THEN <<n>> ELSE Append(Digits(n \div 10), n % 10)

\* the loop of letter_hash over numbers[i:i+2], i = 0, 2, ... (0-based index num -> 1-based)
RECURSIVE LetterChunks(_)
LetterChunks(numbers) ==
    IF numbers = <<>> THEN ""
    ELSE IF Len(numbers) = 1 THEN ascii_letters[numbers[1] + 1]
    ELSE LET num == 10 * numbers[1] + numbers[2]
         IN  (IF num > Len(ascii_letters) - 1
                 THEN ascii_letters[numbers[1] + 1] \o ascii_letters[numbers[2] + 1]
                 ELSE ascii_letters[num + 1])
             \o LetterChunks(SubSeq(numbers, 3, Len(numbers)))

\* letter_hash(obj) with h = hash(obj): the sign is dropped, the digits are read in pairs
letter_hash(h) == LetterChunks(Digits(IF h < 0 THEN -h ELSE h))

(***************************************************************************)
(* Config classes and the override sets passed to make_serializer          *)
(***************************************************************************)
Families == {"PwPdModel", "PwPdWriteModel", "PwPdPartUpdateModel"}

\* a Config class: the attributes it sets (keys) and their values
EmptyCfg ==
    [keys |-> {}, pw_model |-> NoModel, pw_fields |-> {}, pw_exclude |-> {},
     pw_exclude_pk |-> FALSE, pw_nest_fk |-> FALSE, pw_nest_backrefs |-> FALSE,
     pw_all_optional |-> FALSE]

\* families whose Config sets nothing (sensitivity of C5)
FamilyConfig_empty(cls) == EmptyCfg

\* the pw_* attributes of cls.__config__ for the three schema families
FamilyConfig(cls) ==
    CASE cls = "PwPdModel" -> EmptyCfg
      [] cls = "PwPdWriteModel" ->
           [EmptyCfg EXCEPT !.keys = {"pw_exclude_pk", "pw_nest_fk", "pw_nest_backrefs"},
                            !.pw_exclude_pk = TRUE]
      [] cls = "PwPdPartUpdateModel" ->
           [EmptyCfg EXCEPT !.keys = {"pw_exclude_pk", "pw_nest_fk", "pw_nest_backrefs",
                                      "pw_all_optional"},
                            !.pw_exclude_pk = TRUE, !.pw_all_optional = TRUE]

\* **config_values of a make_serializer call: the keyword order and the values
KwIds == {"none", "nest", "nest_opt", "opt_nest", "only_id", "model", "excl_model"}

KwOrder(k) ==
    CASE k = "none"       -> <<>>
      [] k = "nest"       -> <<"pw_nest_fk", "pw_nest_backrefs">>
      [] k = "nest_opt"   -> <<"pw_nest_fk", "pw_all_optional">>
      [] k = "opt_nest"   -> <<"pw_all_optional", "pw_nest_fk">>
      [] k = "only_id"    -> <<"pw_fields">>
      [] k = "model"      -> <<"pw_model">>
      [] k = "excl_model" -> <<"pw_exclude", "pw_model">>

KwValues(k) ==
    CASE k = "none"       -> EmptyCfg
      [] k = "nest"       -> [EmptyCfg EXCEPT !.pw_nest_fk = TRUE, !.pw_nest_backrefs = TRUE]
      [] k = "nest_opt"   -> [EmptyCfg EXCEPT !.pw_nest_fk = TRUE, !.pw_all_optional = TRUE]
      [] k = "opt_nest"   -> [EmptyCfg EXCEPT !.pw_nest_fk = TRUE, !.pw_all_optional = TRUE]
      [] k = "only_id"    -> [EmptyCfg EXCEPT !.pw_fields = {"id"}]
      [] k = "model"      -> [EmptyCfg EXCEPT !.pw_model = "Parent"]
      [] k = "excl_model" -> [EmptyCfg EXCEPT !.pw_exclude = {"text"}, !.pw_model = "Parent"]

SeqRange(s) == {s[i] : i \in DOMAIN s}

\* getattr(config, key, default) on the class inherit_config built from `chain`:
\* the first class of the chain that sets the key decides
Resolve(chain, key, default) ==
    LET hits == SelectSeq(chain, LAMBDA c : key \in c.keys)
    IN  IF hits = <<>> THEN default ELSE hits[1][key]

(***************************************************************************)
(* _FieldTranslator                                                        *)
(***************************************************************************)
RECURSIVE make_serializer(_, _, _, _)
RECURSIVE PwPdMeta_new(_, _, _, _)
RECURSIVE NestAll(_, _)

\* a schema type is identified by its name and by how many types of that name
\* existed when it was created
NoType == [name |-> "", gen |-> 0]

\* _FieldTranslator.FIELDS_MAPPING.get(field_ancestor)
FIELDS_MAPPING(c) ==
    CASE c = "IntegerField" -> "int"
      [] c = "FloatField"   -> "float"
      [] c = "BooleanField" -> "bool"
      [] OTHER              -> "-"

\* a lookup of the field's own class only (sensitivity of C4)
MappedType_exact(cls) == IF FIELDS_MAPPING(cls) # "-" THEN FIELDS_MAPPING(cls) ELSE "str"

\* the for/else over field.__class__.__mro__: the first mapped ancestor, else str
MappedType(cls) ==
    LET hits == SelectSeq(FieldMRO(cls), LAMBDA c : FIELDS_MAPPING(c) # "-")
    IN  IF hits = <<>> THEN "str" ELSE FIELDS_MAPPING(hits[1])

\* _FieldTranslator.is_required
is_required(f) == f.pk \/ ~f.null

\* pd_type asking for the nested schema with an override of its own (sensitivity
\* of C13)
pd_type_nested_with_overrides(st, f, nest_fk, all_optional) ==
    IF f.cls = "ForeignKeyField" /\ nest_fk
    THEN [kind |-> "schema", of |-> "-",
          ref |-> make_serializer(st, "PwPdModel", f.rel, "only_id").ret,
          optional |-> FALSE]
    ELSE [kind |-> "scalar",
          of |-> MappedType((IF f.cls = "ForeignKeyField" THEN rel_field(f) ELSE f).cls),
          ref |-> NoType, optional |-> (~is_required(f)) \/ all_optional]

\* _FieldTranslator.pd_type: the annotation, as its kind, scalar type or nested
\* schema, and whether it is wrapped in Optional
pd_type(st, f, nest_fk, all_optional) ==
    IF f.cls = "ForeignKeyField" /\ nest_fk
    THEN [kind |-> "schema", of |-> "-",
          ref |-> make_serializer(st, "PwPdModel", f.rel, "none").ret,
          optional |-> FALSE]
    ELSE LET field == IF f.cls = "ForeignKeyField" THEN rel_field(f) ELSE f
         IN  [kind |-> "scalar", of |-> MappedType(field.cls), ref |-> NoType,
              optional |-> (~is_required(f)) \/ all_optional]

(***************************************************************************)
(* PwPdMeta.__new__                                                        *)
(***************************************************************************)
\* the field loop without its test against allowed_fields (sensitivity of C2)
Skipped_ignoring_allowed(name, f, allowed_fields, manual, exclude_pk) ==
    \/ name \in manual
    \/ exclude_pk /\ f.pk

\* the `continue` of the field loop
Skipped(name, f, allowed_fields, manual, exclude_pk) ==
    \/ name \notin allowed_fields
    \/ name \in manual
    \/ exclude_pk /\ f.pk

\* the key a model field gets in `fields`
AttrName(f, nest_fk) ==
    IF f.cls = "ForeignKeyField" /\ ~nest_fk THEN f.name \o "_id" ELSE f.name

\* the nested make_serializer calls of one class creation, in order
NestAll(st, targets) ==
    IF targets = <<>> THEN st
    ELSE NestAll(make_serializer(st, "PwPdModel", Head(targets), "none").st, Tail(targets))

ManualAttr ==
    [kind |-> "manual", of |-> "-", ref |-> NoType, optional |-> FALSE,
     default |-> "None", manual |-> TRUE]

\* the config PwPdMeta.__new__ reads: namespace Config, then inherit_config(base.__config__,
\* config) per base, which puts the base's attributes first
ConfigChain(base, ns) == IF base = "BaseModel" THEN <<ns>> ELSE <<FamilyConfig(base), ns>>

\* the config values retrieved with getattr(config, ..., default)
PolicyOf(chain, pw_model) ==
    [pw_model      |-> pw_model,
     pw_fields     |-> Resolve(chain, "pw_fields",
                               IF pw_model = NoModel THEN {}
                               ELSE FieldNames(pw_model) \cup BackrefNames(pw_model)),
     pw_exclude    |-> Resolve(chain, "pw_exclude", {}),
     exclude_pk    |-> Resolve(chain, "pw_exclude_pk", FALSE),
     nest_fk       |-> Resolve(chain, "pw_nest_fk", FALSE),
     nest_backrefs |-> Resolve(chain, "pw_nest_backrefs", FALSE),
     all_optional  |-> Resolve(chain, "pw_all_optional", FALSE)]

Policy(chain) == PolicyOf(chain, Resolve(chain, "pw_model", NoModel))

\* lines 108-121: the model fields the loop puts into `fields`, in order
KeptFields(policy, manual) ==
    SelectSeq(Fields(policy.pw_model),
              LAMBDA f : ~Skipped(f.name, f, policy.pw_fields \ policy.pw_exclude,
                                  manual, policy.exclude_pk))

\* lines 123-129: the reverse relations the second loop puts into `fields`
KeptBackrefs(policy) ==
    IF policy.nest_backrefs
    THEN SelectSeq(Backrefs(policy.pw_model),
                   LAMBDA b : b.backref \in policy.pw_fields \ policy.pw_exclude)
    ELSE <<>>

\* the models whose schema the class creation asks make_serializer for: the owners
\* of the kept reverse relations (line 129), then the nested foreign keys' targets
\* (line 135, through pd_type)
NestTargets(policy, kept, backs) ==
    [i \in DOMAIN backs |-> backs[i].model]
    \o (IF policy.nest_fk
        THEN LET fks == SelectSeq(kept, LAMBDA f : f.cls = "ForeignKeyField")
             IN  [i \in DOMAIN fks |-> fks[i].rel]
        ELSE <<>>)

LastIndex(names, n) ==
    CHOOSE i \in DOMAIN names : names[i] = n /\ \A j \in DOMAIN names : names[j] = n => j <= i

\* lines 131-143: annotation and default of the entry of `fields` under name n
FieldAttr(st, policy, kept, n) ==
    LET f == kept[LastIndex([i \in DOMAIN kept |-> AttrName(kept[i], policy.nest_fk)], n)]
        t == pd_type(st, f, policy.nest_fk, policy.all_optional)
    IN  [kind |-> t.kind, of |-> t.of, ref |-> t.ref, optional |-> t.optional,
         default |-> f.default, manual |-> FALSE]

BackrefAttr(st, backs, n) ==
    [kind |-> "list", of |-> "-",
     ref |-> make_serializer(st, "PwPdModel",
                             backs[LastIndex([i \in DOMAIN backs |-> backs[i].backref], n)].model,
                             "none").ret,
     optional |-> FALSE, default |-> "None", manual |-> FALSE]

\* lines 131-147: the namespace of the new class; deep_update lets the manually
\* declared attributes win
BuildClass(st, policy, kept, backs, manual) ==
    [st |-> st, model |-> policy.pw_model,
     attrs |-> [n \in {AttrName(kept[i], policy.nest_fk) : i \in DOMAIN kept}
                      \cup {backs[i].backref : i \in DOMAIN backs} \cup manual |->
                   IF n \in manual THEN ManualAttr
                   ELSE IF \E i \in DOMAIN backs : backs[i].backref = n
                   THEN BackrefAttr(st, backs, n)
                   ELSE FieldAttr(st, policy, kept, n)]]

\* lines 95-147, for a config that has a pw_model
DeriveClass(st, policy, kept, backs, manual) ==
    BuildClass(NestAll(st, NestTargets(policy, kept, backs)), policy, kept, backs, manual)

DeriveFromPolicy(st, policy, manual) ==
    IF policy.pw_model = NoModel
    THEN [st |-> st, model |-> NoModel, attrs |-> [n \in manual |-> ManualAttr]]
    ELSE DeriveClass(st, policy, KeptFields(policy, manual), KeptBackrefs(policy), manual)

\* PwPdMeta.__new__(mcs, cls_name, (base,), namespace): namespace holds Config = ns
\* and the manually declared attributes `manual`.  Yields the store after the
\* nested calls, the model and the attributes of the new class.
PwPdMeta_new(st, base, ns, manual) ==
    DeriveFromPolicy(st, Policy(ConfigChain(base, ns)), manual)

(***************************************************************************)
(* PwPdModel.make_serializer                                               *)
(***************************************************************************)
\* the hash values this process gives the reprs of the override sets
HashAssignments ==
    { [k \in KwIds \ {"none"} |->
          CASE k = "nest" -> 7301 [] k = "nest_opt" -> -5288 [] k = "opt_nest" -> 1052
            [] k = "only_id" -> 49 [] k = "model" -> -660 [] k = "excl_model" -> 93517],
      [k \in KwIds \ {"none"} |->
          CASE k = "nest" -> -8 [] k = "nest_opt" -> 510 [] k = "opt_nest" -> 2652
            [] k = "only_id" -> -9900 [] k = "model" -> 31 [] k = "excl_model" -> 404] }

\* model.__name__ + cls.__name__ + letter_hash(repr(config_values)), the last only
\* when config_values is not empty
CacheName(m, cls, k) ==
    ModelName(m) \o cls \o (IF KwOrder(k) # <<>> THEN letter_hash(hashOf[k]) ELSE "")

\* class Config: pw_model = model, then setattr(Config, key, value) per override
SerializerConfig(m, k) ==
    [KwValues(k) EXCEPT !.keys = {"pw_model"} \cup SeqRange(KwOrder(k)), !.pw_model = m]

\* cls.__CACHE[name] = <the new class>, given what PwPdMeta.__new__ made of it
Register(made, cls, name) ==
    [types |-> made.st.types
               \cup {[id    |-> [name |-> name,
                                 gen  |-> Cardinality({t \in made.st.types : t.id.name = name})],
                      model |-> made.model, cls |-> cls, attrs |-> made.attrs]},
     cache |-> (name :> [name |-> name,
                         gen  |-> Cardinality({t \in made.st.types : t.id.name = name})])
               @@ made.st.cache]

\* the type(name, (cls,), {'Config': Config}) of make_serializer and its entry in the cache
CreateAndCache(st, cls, m, k, name) ==
    Register(PwPdMeta_new(st, cls, SerializerConfig(m, k), {}), cls, name)

\* return cls.__CACHE[name]
Cached(st, name) == [st |-> st, outcome |-> "ok", ret |-> st.cache[name]]

HasModelKey(k) == \E i \in DOMAIN KwOrder(k) : KwOrder(k)[i] = "pw_model"

\* make_serializer setting pw_model on Config like any other override
\* (sensitivity of C9)
make_serializer_unchecked(st, cls, m, k) ==
    IF CacheName(m, cls, k) \in DOMAIN st.cache
    THEN Cached(st, CacheName(m, cls, k))
    ELSE Cached(CreateAndCache(st, cls, IF KwValues(k).pw_model # NoModel
                                        THEN KwValues(k).pw_model ELSE m,
                               k, CacheName(m, cls, k)),
                CacheName(m, cls, k))

\* cls.make_serializer(model, **config_values) on the store st = [types, cache]
make_serializer(st, cls, m, k) ==
    IF CacheName(m, cls, k) \in DOMAIN st.cache
    THEN Cached(st, CacheName(m, cls, k))
    ELSE IF HasModelKey(k)
    THEN [st |-> st, outcome |-> "ValueError", ret |-> NoType]
    ELSE Cached(CreateAndCache(st, cls, m, k, CacheName(m, cls, k)), CacheName(m, cls, k))

(***************************************************************************)
(* A program that calls make_serializer                                    *)
(***************************************************************************)
\* the calls the checked programs choose from: <<family, model, overrides>>
CallChoices ==
    ({"PwPdModel"} \X {"Test"} \X KwIds)
    \cup ({"PwPdModel"} \X {"Parent"} \X {"none", "model"})
    \cup ({"PwPdModel"} \X {"Child"} \X {"none", "nest"})
    \cup ({"PwPdModel"} \X {"Note"} \X {"nest"})
    \cup ({"PwPdWriteModel"} \X {"Test"} \X {"none", "nest_opt", "model"})
    \cup ({"PwPdWriteModel"} \X {"Child"} \X {"none"})
    \cup ({"PwPdPartUpdateModel"} \X {"Test"} \X {"none", "excl_model"})

NoCall ==
    [op |-> "none", cls |-> "-", model |-> NoModel, kw |-> "none", outcome |-> "-",
     ret |-> NoType, created |-> 0, repeat |-> FALSE, cacheGrew |-> FALSE]

NoDerived == [op |-> "none"]

NoViewSet == [op |-> "none"]

NoResponse == [n |-> 0, action |-> "-", pk |-> 0, status |-> 0]

\* no application is running
NoApp ==
    /\ db = <<>>
    /\ handler = FALSE
    /\ objData = <<>>
    /\ req = <<>>
    /\ asked = 0
    /\ resp = NoResponse
    /\ deleted = {}
    /\ routes = <<>>
    /\ built = NoViewSet
    /\ mounts = 0

Init ==
    /\ types = {}
    /\ cache = <<>>
    /\ hashOf \in HashAssignments
    /\ returned = <<>>
    /\ last = NoCall
    /\ calls = 0
    /\ defined = NoDerived
    /\ defs = 0
    /\ NoApp

\* the effect of a call that came back as r
Served(args, r) ==
    /\ types' = r.st.types
    /\ cache' = r.st.cache
    /\ returned' = IF r.outcome = "ok" /\ args \notin DOMAIN returned
                    THEN (args :> [id |-> r.ret, at |-> calls + 1]) @@ returned
                    ELSE returned
    /\ last' = [op |-> "make_serializer", cls |-> args[1], model |-> args[2], kw |-> args[3],
                outcome |-> r.outcome, ret |-> r.ret,
                created |-> Cardinality(r.st.types) - Cardinality(types),
                repeat |-> args \in DOMAIN returned,
                cacheGrew |-> DOMAIN r.st.cache # DOMAIN cache]

MakeSerializer(cls, m, k) ==
    /\ calls < MaxCalls
    /\ Served(<<cls, m, k>>, make_serializer([types |-> types, cache |-> cache], cls, m, k))
    /\ calls' = calls + 1
    /\ UNCHANGED <<hashOf, defined, defs, crudVars, viewVars>>

Next == \E c \in CallChoices : MakeSerializer(c[1], c[2], c[3])

Spec == Init /\ [][Next]_vars

\* the calls of the programs that use both classes named TestModel
KeyCallChoices ==
    ({"PwPdModel"} \X {"Test", "Test2"} \X {"none", "nest", "only_id"})
    \cup ({"PwPdWriteModel", "PwPdPartUpdateModel"} \X {"Test", "Test2"} \X {"none"})
    \cup ({"PwPdModel"} \X {"Parent"} \X {"none"})

NextKeys == \E c \in KeyCallChoices : MakeSerializer(c[1], c[2], c[3])

SpecKeys == Init /\ [][NextKeys]_vars

(***************************************************************************)
(* Schema classes defined directly (class X(base, metaclass=PwPdMeta)) and *)
(* payloads validated by the write schema of PwPdModelFactory              *)
(***************************************************************************)
\* the Config classes of the directly defined schema classes
DefCfgIds == {"plain", "test1", "test2", "nest", "opt", "nest_opt", "excl_fk", "excl_back"}

DefCfg(c) ==
    CASE c = "plain" -> EmptyCfg
      [] c = "test1" ->
           [EmptyCfg EXCEPT !.keys = {"pw_fields", "pw_exclude", "pw_nest_fk", "pw_nest_backrefs"},
                            !.pw_fields = {"id", "text", "number", "related", "childs"},
                            !.pw_exclude = {"text"},
                            !.pw_nest_fk = TRUE, !.pw_nest_backrefs = TRUE]
      [] c = "test2" ->
           [EmptyCfg EXCEPT !.keys = {"pw_exclude_pk", "pw_nest_fk", "pw_nest_backrefs"},
                            !.pw_exclude_pk = TRUE]
      [] c = "nest" ->
           [EmptyCfg EXCEPT !.keys = {"pw_nest_fk", "pw_nest_backrefs"},
                            !.pw_nest_fk = TRUE, !.pw_nest_backrefs = TRUE]
      [] c = "opt" ->
           [EmptyCfg EXCEPT !.keys = {"pw_all_optional"}, !.pw_all_optional = TRUE]
      [] c = "nest_opt" ->
           [EmptyCfg EXCEPT !.keys = {"pw_nest_fk", "pw_all_optional"},
                            !.pw_nest_fk = TRUE, !.pw_all_optional = TRUE]
      [] c = "excl_fk" ->
           [EmptyCfg EXCEPT !.keys = {"pw_exclude"}, !.pw_exclude = {"related", "tag", "test"}]
      [] c = "excl_back" ->
           [EmptyCfg EXCEPT !.keys = {"pw_exclude", "pw_nest_backrefs"},
                            !.pw_exclude = {"childs", "id"}, !.pw_nest_backrefs = TRUE]

\* class Config of a directly defined schema class for model m
DefineConfig(m, c) ==
    [DefCfg(c) EXCEPT !.keys = DefCfg(c).keys \cup {"pw_model"}, !.pw_model = m]

\* the class definitions the checked programs choose from: <<base, model, config, manual>>
DefineChoices ==
    ({"BaseModel", "PwPdModel"} \X ModelIds \X DefCfgIds \X {{}})
    \cup ({"BaseModel"} \X {"Test"} \X DefCfgIds \X {{"text"}, {"related", "extra"}})
    \cup ({"PwPdWriteModel", "PwPdPartUpdateModel"} \X ModelIds \X {"plain", "nest_opt"} \X {{}})

\* the keyword arguments a payload may hold for model m: its columns, foreign
\* keys as name_id, and a name the model does not have
PayloadNames(m) ==
    {IF f.cls = "ForeignKeyField" THEN f.name \o "_id" ELSE f.name : f \in FieldSet(m)}
    \cup {"bogus"}

\* payloads: keyword arguments with their values, "None" being Python's None;
\* None is tried on a column with a default and on a nullable column
Payloads(m) ==
    UNION {{p \in [ps -> {"v", "None"}] :
               \A n \in ps : p[n] = "None" => n \in {"is_test", "score"}}
           : ps \in SUBSET PayloadNames(m)}

\* pydantic: a field is required when its annotation is not Optional and the class
\* namespace gives it no default
PdRequired(a) == ~a.optional /\ a.default = "None"

\* the errors pydantic collects for schema(**p) under Config.extra = 'forbid'
ValidationErrors(attrs, p) ==
    {<<n, "value_error.extra">> : n \in {x \in DOMAIN p : x \notin DOMAIN attrs}}
    \cup {<<n, "value_error.missing">> :
             n \in {x \in DOMAIN attrs : x \notin DOMAIN p /\ PdRequired(attrs[x])}}
    \cup {<<n, "type_error.none.not_allowed">> :
             n \in {x \in DOMAIN p \cap DOMAIN attrs : p[x] = "None" /\ ~attrs[x].optional}}

\* pydantic validation of schema(**p): the errors, else the object's values (data)
\* and the names set from the payload (__fields_set__)
Validate(attrs, p) ==
    [accepted   |-> ValidationErrors(attrs, p) = {},
     errors     |-> ValidationErrors(attrs, p),
     data       |-> [n \in DOMAIN attrs |-> IF n \in DOMAIN p THEN p[n] ELSE attrs[n].default],
     fields_set |-> DOMAIN p \cap DOMAIN attrs]

\* PwPdModelFactory(model).write_pd
write_pd(st, m) == make_serializer(st, "PwPdWriteModel", m, "none")

TypeOf(ts, id) == CHOOSE t \in ts : t.id = id

\* the effect of a class definition that PwPdMeta.__new__ turned into r
Defined(d, policy, r) ==
    /\ types' = r.st.types
    /\ cache' = r.st.cache
    /\ defined' = [op |-> "define", base |-> d[1], model |-> d[2], cfg |-> d[3],
                   manual |-> d[4], attrs |-> r.attrs, policy |-> policy]

DefineSchema(base, m, c, manual) ==
    /\ defs < MaxDefs
    /\ Defined(<<base, m, c, manual>>, Policy(ConfigChain(base, DefineConfig(m, c))),
               PwPdMeta_new([types |-> types, cache |-> cache], base, DefineConfig(m, c), manual))
    /\ defs' = defs + 1
    /\ UNCHANGED <<hashOf, returned, last, calls, crudVars, viewVars>>

\* the effect of write_pd(**payload), write_pd having come back as r
Validated(m, p, r, v) ==
    /\ types' = r.st.types
    /\ cache' = r.st.cache
    /\ defined' = [op |-> "validate", model |-> m, payload |-> p,
                   accepted |-> v.accepted, errors |-> v.errors, data |-> v.data]

ValidatedBy(m, p, r) == Validated(m, p, r, Validate(TypeOf(r.st.types, r.ret).attrs, p))

ValidateWrite(m, p) ==
    /\ defs < MaxDefs
    /\ ValidatedBy(m, p, write_pd([types |-> types, cache |-> cache], m))
    /\ defs' = defs + 1
    /\ UNCHANGED <<hashOf, returned, last, calls, crudVars, viewVars>>

NextSchema ==
    \/ \E d \in DefineChoices : DefineSchema(d[1], d[2], d[3], d[4])
    \/ \E m \in ModelIds : \E p \in Payloads(m) : ValidateWrite(m, p)

InitSchema ==
    /\ types = {}
    /\ cache = <<>>
    /\ hashOf = CHOOSE h \in HashAssignments : h["nest"] > 0
    /\ returned = <<>>
    /\ last = NoCall
    /\ calls = 0
    /\ defined = NoDerived
    /\ defs = 0
    /\ NoApp

SpecSchema == InitSchema /\ [][NextSchema]_vars

(***************************************************************************)
(* Programs on models that refer to themselves or to each other: calls of  *)
(* make_serializer and class definitions with nesting switched on          *)
(***************************************************************************)
GraphCallChoices ==
    ({"PwPdModel"} \X {"Node", "Author", "Book"} \X {"none", "nest"})
    \cup {<<"PwPdModel", "Test", "nest">>}

GraphDefineChoices == {"BaseModel", "PwPdModel"} \X {"Node", "Book"} \X {"nest"} \X {{}}

NextGraph ==
    \/ \E c \in GraphCallChoices : MakeSerializer(c[1], c[2], c[3])
    \/ \E d \in GraphDefineChoices : DefineSchema(d[1], d[2], d[3], d[4])

SpecGraph == Init /\ [][NextGraph]_vars

(***************************************************************************)
(* crud/viewsets.py and crud/views.py: AutoFastAPIViewSet(model, app,      *)
(* actions)                                                                *)
(***************************************************************************)
IsUpper(c) == \E i \in 27..52 : ascii_letters[i] = c

\* str.lower() of one character
Lower(c) ==
    IF IsUpper(c) THEN ascii_letters[(CHOOSE i \in 27..52 : ascii_letters[i] = c) - 26] ELSE c

\* re.sub(r'(?<!^)(?=[A-Z])', '_', name): an underscore before every capital that
\* is not the first character
RECURSIVE Underscored(_, _)
Underscored(chars, i) ==
    IF i > Len(chars) THEN <<>>
    ELSE (IF i > 1 /\ IsUpper(chars[i]) THEN <<"_", chars[i]>> ELSE <<chars[i]>>)
         \o Underscored(chars, i + 1)

\* re.sub(r'(?<!^)(?=[A-Z])', '_', name).lower()
snake_case(chars) ==
    Join([i \in DOMAIN Underscored(chars, 1) |-> Lower(Underscored(chars, 1)[i])])

\* the keys of AutoFastAPIViewSet._ACTIONS_MAP
ActionNames == {"retrieve", "list", "create", "update", "part_update", "delete"}

DefaultActions == <<"retrieve", "list", "create", "update", "part_update", "delete">>

\* the view classes of views.py: name without the suffix FastAPIView, METHOD, URL,
\* STATUS_CODE
ViewClass(stem, method, url, status) ==
    [stem |-> stem, METHOD |-> method, URL |-> url, STATUS_CODE |-> status]

_ACTIONS_MAP(a) ==
    CASE a = "retrieve"    -> ViewClass(<<"R","e","t","r","i","e","v","e">>, "GET", "/{pk}/", 200)
      [] a = "list"        -> ViewClass(<<"L","i","s","t">>, "GET", "/", 200)
      [] a = "create"      -> ViewClass(<<"C","r","e","a","t","e">>, "POST", "/", 200)
      [] a = "update"      -> ViewClass(<<"U","p","d","a","t","e">>, "PUT", "/{pk}/", 200)
      [] a = "part_update" ->
           ViewClass(<<"P","a","r","t","i","a","l","U","p","d","a","t","e">>,
                     "PATCH", "/{pk}/", 200)
      [] a = "delete"      -> ViewClass(<<"D","e","l","e","t","e">>, "DELETE", "/{pk}/", 204)

\* FastAPIView.make_model_view(model) and the instance made of it
make_model_view(a, model) ==
    [cls    |-> ModelName(model) \o Join(_ACTIONS_MAP(a).stem) \o "FastAPIView",
     action |-> a, MODEL |-> model]

\* FastAPIView._get_api_route_params, as the router with `prefix` registers it
Route(view, prefix) ==
    [path        |-> prefix \o _ACTIONS_MAP(view.action).URL,
     method      |-> _ACTIONS_MAP(view.action).METHOD,
     status_code |-> _ACTIONS_MAP(view.action).STATUS_CODE,
     name        |-> snake_case(_ACTIONS_MAP(view.action).stem),
     endpoint    |-> view]

\* tuple(actions) kept as passed (sensitivity of C10)
all_of(actions) == actions

\* set(actions): the distinct elements (iterated here in order of first occurrence)
RECURSIVE set_of(_)
set_of(actions) ==
    IF actions = <<>> THEN <<>>
    ELSE LET front == set_of(SubSeq(actions, 1, Len(actions) - 1))
             x     == actions[Len(actions)]
         IN  IF \E i \in DOMAIN front : front[i] = x THEN front ELSE Append(front, x)

\* AutoFastAPIViewSet._make_views, consumed by list(): the views, or the KeyError
\* of an action that _ACTIONS_MAP does not have
_make_views(model, acts) ==
    IF \E i \in DOMAIN acts : acts[i] \notin ActionNames
    THEN [error |-> "KeyError", views |-> <<>>]
    ELSE [error |-> "", views |-> [i \in DOMAIN acts |-> make_model_view(acts[i], model)]]

\* AutoFastAPIViewSet._get_api_router_params
Prefix(model) == "/" \o snake_case(NameChars(model))

\* AutoFastAPIViewSet.__init__ on an application with the routes `before`: the
\* routes afterwards and the exception raised, if any
ViewSetOf(before, model, made) ==
    IF made.error # "" THEN [error |-> made.error, views |-> <<>>, routes |-> before]
    ELSE IF made.views = <<>>
    THEN [error |-> "AssertionError", views |-> <<>>, routes |-> before]
    ELSE [error |-> "", views |-> made.views,
          routes |-> before \o [i \in DOMAIN made.views |-> Route(made.views[i], Prefix(model))]]

AutoFastAPIViewSet(before, model, actions) ==
    ViewSetOf(before, model, _make_views(model, set_of(actions)))

\* the `actions` arguments tried: every tuple of at most two names, known or not,
\* the default, and a tuple with a name three times
ActionTuples ==
    {<<>>, DefaultActions, <<"list", "retrieve", "list", "list">>}
    \cup {<<a>> : a \in ActionNames \cup {"bogus"}}
    \cup {<<a, b>> : a \in ActionNames \cup {"bogus"}, b \in ActionNames \cup {"bogus"}}

Constructed(model, actions, vs) ==
    /\ routes' = vs.routes
    /\ built' = [op |-> "viewset", model |-> model, actions |-> actions, error |-> vs.error,
                 views |-> vs.views, before |-> routes]

\* AutoFastAPIViewSet(model, app, actions)
Mount(model, actions) ==
    /\ mounts < MaxMounts
    /\ mounts' = mounts + 1
    /\ Constructed(model, actions, AutoFastAPIViewSet(routes, model, actions))
    /\ UNCHANGED <<schemaVars, crudVars>>

NextViewSet == \E m \in ModelIds : \E actions \in ActionTuples : Mount(m, actions)

InitViewSet ==
    /\ types = {}
    /\ cache = <<>>
    /\ hashOf = CHOOSE h \in HashAssignments : h["nest"] > 0
    /\ returned = <<>>
    /\ last = NoCall
    /\ calls = 0
    /\ defined = NoDerived
    /\ defs = 0
    /\ NoApp

SpecViewSet == InitViewSet /\ [][NextViewSet]_vars

(***************************************************************************)
(* The application of example.py: AutoFastAPIViewSet(TestModel, app), and  *)
(* the requests it serves                                                  *)
(***************************************************************************)
CrudModel == "Test"

\* the primary keys requests are made for
Pks == {1, 2}

\* the request slots: requests being served at the same time
Slots == {1, 2}

Idle == [action |-> "-"]

NoData == [data |-> <<>>, fields_set |-> {}]

WriteActions == {"create", "update", "part_update"}

\* the serializer property of the write views (resolved when the route is registered)
SerializerOf(action) ==
    IF action = "part_update"
    THEN make_serializer([types |-> {}, cache |-> <<>>], "PwPdPartUpdateModel", CrudModel, "none")
    ELSE write_pd([types |-> {}, cache |-> <<>>], CrudModel)

SerializerAttrs(action) ==
    TypeOf(SerializerOf(action).st.types, SerializerOf(action).ret).attrs

\* the columns of a row, and those declared NOT NULL
RowNames == DOMAIN SerializerAttrs("create")

NotNullNames ==
    {IF f.cls = "ForeignKeyField" THEN f.name \o "_id" ELSE f.name :
        f \in {g \in FieldSet(CrudModel) : ~g.null /\ ~g.pk}}

Row(text, number) ==
    [text |-> text, number |-> number, is_test |-> "True", related_id |-> "1"]

\* request bodies of POST and PUT
FullBodies ==
    { ("text" :> "a") @@ ("related_id" :> "1"),
      ("text" :> "b") @@ ("number" :> "7") @@ ("related_id" :> "1"),
      ("text" :> "b") }

\* request bodies of PATCH
PartBodies ==
    { <<>>,
      ("text" :> "b"),
      ("number" :> "7"),
      ("text" :> "None"),
      ("id" :> "2") }

BodiesOf(action) == IF action = "part_update" THEN PartBodies ELSE FullBodies

\* the rows violate no NOT NULL constraint
Storable(row) == \A n \in NotNullNames : row[n] # "None"

\* BaseReadFastAPIView._get_instance: the row, or peewee's DoesNotExist
Found(rows, pk) == pk \in DOMAIN rows

\* sqlite's rowid for a new row of an INTEGER PRIMARY KEY table
NewPk(rows) == IF DOMAIN rows = {} THEN 1
               ELSE (CHOOSE k \in DOMAIN rows : \A j \in DOMAIN rows : j <= k) + 1

\* self._obj_data.dict(exclude_unset=partial)
DataDict(od, partial) ==
    IF partial THEN [n \in od.fields_set |-> od.data[n]] ELSE od.data

\* the setattr loop of update
Assigned(row, d) == [n \in DOMAIN row |-> IF n \in DOMAIN d THEN d[n] ELSE row[n]]

\* BaseDeleteFastAPIView.delete that removes nothing (sensitivity of C8)
delete_nothing(rows, pk) ==
    IF ~Found(rows, pk) THEN [error |-> "DoesNotExist", rows |-> rows]
    ELSE [error |-> "", rows |-> rows]

\* BaseDeleteFastAPIView.delete
delete(rows, pk) ==
    IF ~Found(rows, pk) THEN [error |-> "DoesNotExist", rows |-> rows]
    ELSE [error |-> "", rows |-> [k \in DOMAIN rows \ {pk} |-> rows[k]]]

\* BaseWriteFastAPIView.update
update(rows, pk, od, partial) ==
    IF ~Found(rows, pk) THEN [error |-> "DoesNotExist", rows |-> rows]
    ELSE IF ~Storable(Assigned(rows[pk], DataDict(od, partial)))
    THEN [error |-> "IntegrityError", rows |-> rows]
    ELSE [error |-> "",
          rows |-> [rows EXCEPT ![pk] = Assigned(rows[pk], DataDict(od, partial))]]

\* BaseWriteFastAPIView.create
create(rows, od) ==
    IF ~Storable(od.data) THEN [error |-> "IntegrityError", rows |-> rows]
    ELSE [error |-> "", rows |-> (NewPk(rows) :> od.data) @@ rows]

NotFoundBody == [msg |-> "Instance not found", type |-> "not_found"]

\* what the application answers when the endpoint raised `error`: the handler
\* registered for the exception class, else the server's 500
ExceptionStatus(error) ==
    IF error = "DoesNotExist" /\ handler THEN 404 ELSE 500

ExceptionBody(error) ==
    IF error = "DoesNotExist" /\ handler THEN NotFoundBody ELSE "Internal Server Error"

\* the response to a request whose endpoint came back as r; ok and body are the
\* status code and body of the normal return
Answer(action, pk, sent, r, ok, body) ==
    /\ db' = r.rows
    /\ resp' = [n |-> resp.n + 1, action |-> action, pk |-> pk, sent |-> sent,
                error |-> r.error,
                status |-> IF r.error = "" THEN ok ELSE ExceptionStatus(r.error),
                body |-> IF r.error = "" THEN body ELSE ExceptionBody(r.error),
                pre |-> db, post |-> r.rows, gone |-> deleted]
    /\ deleted' = IF action = "delete" /\ r.error = "" THEN deleted \cup {pk}
                  ELSE IF action = "create" /\ r.error = "" THEN deleted \ DOMAIN r.rows
                  ELSE deleted

\* the application has a route for the action of the model's viewset
Routed(action) ==
    \E i \in DOMAIN routes :
        routes[i].endpoint.action = action /\ routes[i].endpoint.MODEL = CrudModel

\* NotFoundExceptionHandler.add_to_app(app), in the set-up code of the application
RegisterNotFoundHandler ==
    /\ asked = 0
    /\ ~handler
    /\ handler' = TRUE
    /\ UNCHANGED <<schemaVars, viewVars, db, objData, req, asked, resp, deleted>>

\* GET /test_model/{pk}/
Retrieve(pk) ==
    /\ Routed("retrieve")
    /\ asked < MaxRequests
    /\ asked' = asked + 1
    /\ Answer("retrieve", pk, <<>>,
              [error |-> IF Found(db, pk) THEN "" ELSE "DoesNotExist", rows |-> db],
              200, IF Found(db, pk) THEN db[pk] ELSE <<>>)
    /\ UNCHANGED <<schemaVars, viewVars, handler, objData, req>>

\* GET /test_model/
List ==
    /\ Routed("list")
    /\ asked < MaxRequests
    /\ asked' = asked + 1
    /\ Answer("list", 0, <<>>, [error |-> "", rows |-> db], 200, db)
    /\ UNCHANGED <<schemaVars, viewVars, handler, objData, req>>

\* DELETE /test_model/{pk}/
Delete(pk) ==
    /\ Routed("delete")
    /\ asked < MaxRequests
    /\ asked' = asked + 1
    /\ Answer("delete", pk, <<>>, delete(db, pk), 204, "")
    /\ UNCHANGED <<schemaVars, viewVars, handler, objData, req>>

\* the response to a body the serializer rejects: the endpoint is not called
Unprocessable(action, pk, body, v) ==
    /\ resp' = [n |-> resp.n + 1, action |-> action, pk |-> pk, sent |-> body,
                error |-> "RequestValidationError", status |-> 422, body |-> v.errors,
                pre |-> db, post |-> db, gone |-> deleted]
    /\ UNCHANGED <<objData, req>>

\* data_dependency(data): self._obj_data = data
Depend(s, action, pk, body, v) ==
    /\ objData' = [objData EXCEPT ![action] = [data |-> v.data, fields_set |-> v.fields_set]]
    /\ req' = [req EXCEPT ![s] = [action |-> action, pk |-> pk, body |-> body]]
    /\ UNCHANGED resp

Validated_body(s, action, pk, body, v) ==
    IF v.accepted THEN Depend(s, action, pk, body, v) ELSE Unprocessable(action, pk, body, v)

\* POST, PUT or PATCH arrives: FastAPI validates the body and runs the dependency
Submit(s, action, pk, body) ==
    /\ Routed(action)
    /\ asked < MaxRequests
    /\ req[s] = Idle
    /\ \A t \in Slots : t < s => req[t] # Idle
    /\ asked' = asked + 1
    /\ Validated_body(s, action, pk, body, Validate(SerializerAttrs(action), body))
    /\ UNCHANGED <<schemaVars, viewVars, db, handler, deleted>>

\* the endpoint of the request in slot s runs: view(pk) or view()
Endpoint(s) ==
    /\ req[s] # Idle
    /\ req[s].action = "create" => NewPk(db) \in Pks
    /\ Answer(req[s].action, req[s].pk, req[s].body,
              IF req[s].action = "create" THEN create(db, objData["create"])
              ELSE update(db, req[s].pk, objData[req[s].action], req[s].action = "part_update"),
              200,
              IF req[s].action = "create" THEN objData["create"].data
              ELSE IF Found(db, req[s].pk)
                   THEN Assigned(db[req[s].pk],
                                 DataDict(objData[req[s].action], req[s].action = "part_update"))
                   ELSE <<>>)
    /\ req' = [req EXCEPT ![s] = Idle]
    /\ UNCHANGED <<schemaVars, viewVars, handler, objData, asked>>

NextCrud ==
    \/ RegisterNotFoundHandler
    \/ \E pk \in Pks : Retrieve(pk)
    \/ List
    \/ \E pk \in Pks : Delete(pk)
    \/ \E s \in Slots : \E b \in FullBodies : Submit(s, "create", 0, b)
    \/ \E s \in Slots : \E pk \in Pks : \E b \in FullBodies : Submit(s, "update", pk, b)
    \/ \E s \in Slots : \E pk \in Pks : \E b \in PartBodies : Submit(s, "part_update", pk, b)
    \/ \E s \in Slots : Endpoint(s)

\* the application of example.py after start-up, with one row in the table
InitCrud ==
    /\ types = {}
    /\ cache = <<>>
    /\ hashOf = CHOOSE h \in HashAssignments : h["nest"] > 0
    /\ returned = <<>>
    /\ last = NoCall
    /\ calls = 0
    /\ defined = NoDerived
    /\ defs = 0
    /\ db = (1 :> Row("a", "None"))
    /\ handler = FALSE
    /\ objData = [a \in WriteActions |-> NoData]
    /\ req = [s \in Slots |-> Idle]
    /\ asked = 0
    /\ resp = NoResponse
    /\ deleted = {}
    /\ routes = AutoFastAPIViewSet(<<>>, CrudModel, DefaultActions).routes
    /\ built = NoViewSet
    /\ mounts = 0

SpecCrud == InitCrud /\ [][NextCrud]_vars

(***************************************************************************)
(* Properties of the schema cache                                          *)
(***************************************************************************)
LastArgs == <<last.cls, last.model, last.kw>>

\* two override sets passed to make_serializer hold the same keys with the same values
SameOverrides(k1, k2) ==
    /\ SeqRange(KwOrder(k1)) = SeqRange(KwOrder(k2))
    /\ KwValues(k1) = KwValues(k2)

\* C1 as stated: a make_serializer call for a family, model and set of overrides
\* that an earlier call was served for returns the very schema object that call
\* returned and creates no new schema type, whatever calls were made in between.
C1_Original ==
    (last.op = "make_serializer" /\ last.outcome = "ok")
        => \A a \in DOMAIN returned :
               (/\ a[1] = last.cls /\ a[2] = last.model
                /\ SameOverrides(a[3], last.kw)
                /\ returned[a].at < calls)
                   => last.ret = returned[a].id /\ last.created = 0

\* The part of C1 that holds: a call that repeats an earlier one with the overrides
\* in the same keyword order returns the object of the first such call and creates
\* no type.
SameCallSameObject ==
    (last.op = "make_serializer" /\ last.outcome = "ok" /\ last.repeat)
        => /\ last.ret = returned[LastArgs].id
           /\ last.created = 0
           /\ \E t \in types : t.id = last.ret

\* the schema type a call for (family, model, overrides) builds when nothing is
\* cached
FreshType(cls, m, k) ==
    TypeOf(make_serializer([types |-> {}, cache |-> <<>>], cls, m, k).st.types,
           make_serializer([types |-> {}, cache |-> <<>>], cls, m, k).ret)

\* C12 as stated: the schema a make_serializer call returns for (model M, family F,
\* overrides O) was derived from M itself, for F, and has the attributes that M
\* derives to under F's policy with overrides O; an entry that another model or
\* other overrides created is never returned.
C12_Original ==
    (last.op = "make_serializer" /\ last.outcome = "ok")
        => /\ TypeOf(types, last.ret).model = last.model
           /\ TypeOf(types, last.ret).cls = last.cls
           /\ TypeOf(types, last.ret).attrs = FreshType(last.cls, last.model, last.kw).attrs

\* the attribute holds a nested schema or a list of nested schemas
Nesting(a) == a.kind \in {"schema", "list"}

\* the models that model m relates to under the name n: the target of the foreign
\* key n, the owners of the reverse relation n
RelTargets(m, n) ==
    {f.rel : f \in {g \in FieldSet(m) : g.cls = "ForeignKeyField" /\ g.name = n}}
    \cup {Backrefs(m)[i].model : i \in {j \in DOMAIN Backrefs(m) : Backrefs(m)[j].backref = n}}

AllTargets(m) ==
    {f.rel : f \in {g \in FieldSet(m) : g.cls = "ForeignKeyField"}}
    \cup {Backrefs(m)[i].model : i \in DOMAIN Backrefs(m)}

\* every nested schema among attrs, the attributes of a schema of model m, is an
\* existing schema of the PwPdModel family for the related model, has the
\* attributes the default policy derives and nests nothing itself
NestedOnce(m, attrs) ==
    \A n \in DOMAIN attrs :
        Nesting(attrs[n]) =>
            \E u \in types :
                /\ u.id = attrs[n].ref
                /\ u.cls = "PwPdModel"
                /\ u.model \in RelTargets(m, n)
                /\ u.attrs = FreshType("PwPdModel", u.model, "none").attrs
                /\ \A k \in DOMAIN u.attrs : ~Nesting(u.attrs[k])

\* C13: on models that refer to themselves or to each other, with nesting of
\* foreign keys and of reverse relations on, every make_serializer call and every
\* class definition comes back; a call creates at most the schema it was asked for
\* and one per related model; and every nested schema is the related model's
\* schema under the default policy, which nests nothing.
C13_NestingOneLevel ==
    /\ calls > 0 => last.outcome \in {"ok", "ValueError"}
    /\ (last.op = "make_serializer" /\ last.outcome = "ok")
           => last.created <= 1 + Cardinality(AllTargets(last.model))
    /\ \A t \in types : NestedOnce(t.model, t.attrs)
    /\ defined.op = "define" => NestedOnce(defined.model, defined.attrs)

\* C13 witness: make_serializer(Node, pw_nest_fk=True, pw_nest_backrefs=True) came
\* back with a schema whose attributes parent and children both nest the default
\* schema of Node, another schema than the one returned
C13_Witness ==
    /\ last.op = "make_serializer" /\ last.outcome = "ok"
    /\ last.model = "Node" /\ last.kw = "nest"
    /\ \E t \in types :
           /\ t.id = last.ret
           /\ t.attrs["parent"].kind = "schema"
           /\ t.attrs["children"].kind = "list"
           /\ t.attrs["parent"].ref = t.attrs["children"].ref
           /\ t.attrs["parent"].ref # last.ret
           /\ t.attrs["parent"].ref.name = "NodePwPdModel"

\* the third call repeats the first one, with overrides, after a different call
\* was served in between
SameCallReached ==
    /\ calls = 3
    /\ last.op = "make_serializer" /\ last.outcome = "ok" /\ last.repeat
    /\ last.kw # "none"
    /\ returned[LastArgs].at = 1
    /\ \E a \in DOMAIN returned : returned[a].at = 2
    /\ last.ret = returned[LastArgs].id

\* C9: a make_serializer call whose overrides contain pw_model raises ValueError,
\* creates no type and leaves the cache as it was.
C9_ModelKeyRejected ==
    (last.op = "make_serializer" /\ \E i \in DOMAIN KwOrder(last.kw) : KwOrder(last.kw)[i] = "pw_model")
        => /\ last.outcome = "ValueError"
           /\ last.created = 0
           /\ ~last.cacheGrew

\* C9 witness: pw_model passed after another override, on a write family, with a
\* non-empty cache, is rejected
C9_Witness ==
    /\ last.op = "make_serializer" /\ last.kw = "excl_model"
    /\ last.cls = "PwPdPartUpdateModel"
    /\ last.outcome = "ValueError"
    /\ cache # <<>>
    /\ ~last.cacheGrew

(***************************************************************************)
(* Properties of the derived schemas                                       *)
(***************************************************************************)
IsDefine == defined.op = "define" /\ defined.model # NoModel

IsFK(f) == f.cls = "ForeignKeyField"

\* the attribute names under which a model field can show up
Spellings(f) == IF IsFK(f) THEN {f.name, f.name \o "_id"} ELSE {f.name}

\* some attribute of the schema stands for the field
Appears(f) == \E n \in Spellings(f) : n \in DOMAIN defined.attrs

\* some attribute of the schema was derived from the field
Derived(f) == \E n \in Spellings(f) : n \in DOMAIN defined.attrs /\ ~defined.attrs[n].manual

\* the field passes the three tests of the field loop
Survives(f) ==
    /\ f.name \in defined.policy.pw_fields \ defined.policy.pw_exclude
    /\ f.name \notin defined.manual
    /\ ~(defined.policy.exclude_pk /\ f.pk)

C3_Original ==
    IsDefine =>
        \A f \in FieldSet(defined.model) : \A n \in Spellings(f) :
            (n \in DOMAIN defined.attrs /\ ~defined.attrs[n].manual)
                => IF defined.policy.all_optional
                   THEN defined.attrs[n].optional
                   ELSE (~defined.attrs[n].optional) <=> (f.pk \/ ~f.null)

\* the scalar type of a column class, by its ancestors
ScalarOf(cls) ==
    IF "IntegerField" \in SeqRange(FieldMRO(cls)) THEN "int"
    ELSE IF "FloatField" \in SeqRange(FieldMRO(cls)) THEN "float"
    ELSE IF "BooleanField" \in SeqRange(FieldMRO(cls)) THEN "bool"
    ELSE "str"

\* C4: a surviving foreign key R is, with nesting off, the attribute R_id (and no
\* R) of the scalar type of the referenced column, and with nesting on the
\* attribute R (and no R_id) typed as the related model's derived schema.
C4_ForeignKeyAttribute ==
    IsDefine =>
        \A f \in FieldSet(defined.model) :
            (IsFK(f) /\ Survives(f)) =>
                LET id == f.name \o "_id"
                IN  IF defined.policy.nest_fk
                    THEN /\ f.name \in DOMAIN defined.attrs
                         /\ id \notin DOMAIN defined.attrs
                         /\ defined.attrs[f.name].kind = "schema"
                         /\ \E t \in types :
                                /\ t.id = defined.attrs[f.name].ref
                                /\ t.model = f.rel
                                /\ t.cls = "PwPdModel"
                                /\ cache[ModelName(f.rel) \o "PwPdModel"] = t.id
                    ELSE /\ id \in DOMAIN defined.attrs
                         /\ f.name \notin DOMAIN defined.attrs
                         /\ defined.attrs[id].kind = "scalar"
                         /\ defined.attrs[id].of = ScalarOf(PkField(f.rel).cls)

\* C4 witness: a schema with an un-nested foreign key to an AutoField column
C4_Witness ==
    /\ IsDefine /\ defined.model = "Test" /\ ~defined.policy.nest_fk
    /\ "related_id" \in DOMAIN defined.attrs
    /\ defined.attrs["related_id"].of = "int"

\* C4 witness: a schema with a nested foreign key
C4_WitnessNested ==
    /\ IsDefine /\ defined.model = "Note" /\ defined.policy.nest_fk
    /\ "tag" \in DOMAIN defined.attrs
    /\ defined.attrs["tag"].kind = "schema"

IsValidate == defined.op = "validate"

\* the attributes of the write schema, from the model's metadata
WriteNames(m) ==
    {IF IsFK(f) THEN f.name \o "_id" ELSE f.name : f \in {g \in FieldSet(m) : ~g.pk}}

WriteField(m, n) ==
    CHOOSE f \in FieldSet(m) : ~f.pk /\ n = (IF IsFK(f) THEN f.name \o "_id" ELSE f.name)

WriteRequired(m) ==
    {n \in WriteNames(m) : ~WriteField(m, n).null /\ WriteField(m, n).default = "None"}

\* C5: the write schema accepts a payload only if it holds no primary key, no
\* unknown attribute and every required attribute; each offending attribute gets
\* an extra-field error, each absent required one a missing-field error; in an
\* accepted payload an absent attribute takes its default, or None.
C5_WriteValidation ==
    IsValidate =>
        LET m == defined.model
            p == DOMAIN defined.payload
        IN  /\ defined.accepted =>
                   /\ PkField(m).name \notin p
                   /\ p \subseteq WriteNames(m)
                   /\ WriteRequired(m) \subseteq p
            /\ \A n \in p \ WriteNames(m) : <<n, "value_error.extra">> \in defined.errors
            /\ PkField(m).name \in p
                   => <<PkField(m).name, "value_error.extra">> \in defined.errors
            /\ \A n \in WriteRequired(m) \ p : <<n, "value_error.missing">> \in defined.errors
            /\ defined.accepted =>
                   \A n \in WriteNames(m) \ p :
                       defined.data[n] = WriteField(m, n).default

\* C5 witness: an accepted payload that leaves out a nullable column and a
\* column with a default
C5_Witness ==
    /\ IsValidate /\ defined.model = "Test" /\ defined.accepted
    /\ DOMAIN defined.payload = {"text", "related_id"}
    /\ defined.data["number"] = "None" /\ defined.data["is_test"] = "True"

\* C5 witness: a payload with the primary key and without a required column
C5_WitnessRejected ==
    /\ IsValidate /\ defined.model = "Test" /\ ~defined.accepted
    /\ DOMAIN defined.payload = {"id", "text"}
    /\ defined.errors = {<<"id", "value_error.extra">>, <<"related_id", "value_error.missing">>}

(***************************************************************************)
(* Properties of the served requests                                       *)
(***************************************************************************)
\* the requests that look a record up by the primary key of the path
LookupActions == {"retrieve", "update", "part_update", "delete"}

\* the last response answers a request whose endpoint ran
EndpointRan == resp.n > 0 /\ resp.status # 422

\* C6 as stated: with the viewset mounted, a retrieve, update, partial-update or
\* delete whose primary key matches no record is answered 404 with the body
\* {msg: "Instance not found", type: "not_found"}, never with the server's 500.
C6_Original ==
    (EndpointRan /\ resp.action \in LookupActions /\ resp.pk \notin DOMAIN resp.pre)
        => /\ resp.status = 404
           /\ resp.body = NotFoundBody

\* the row a partial update of `row` with the request body `sent` should leave
Patched(row, sent) == [n \in DOMAIN row |-> IF n \in DOMAIN sent THEN sent[n] ELSE row[n]]

\* C7 as stated: a partial update of an existing record that is answered 200 set
\* exactly the attributes of its own request body, kept every other attribute and
\* changed no other record.
C7_Original ==
    (EndpointRan /\ resp.action = "part_update" /\ resp.status = 200)
        => /\ resp.pk \in DOMAIN resp.pre
           /\ resp.post = [resp.pre EXCEPT ![resp.pk] = Patched(resp.pre[resp.pk], resp.sent)]

OwnData(action, sent) ==
    [data |-> Validate(SerializerAttrs(action), sent).data,
     fields_set |-> Validate(SerializerAttrs(action), sent).fields_set]

\* the outcome of the answered write request had its endpoint used the payload
\* validated for that request
OwnOutcome ==
    IF resp.action = "create" THEN create(resp.pre, OwnData("create", resp.sent))
    ELSE update(resp.pre, resp.pk, OwnData(resp.action, resp.sent),
                resp.action = "part_update")

\* C11 as stated: whatever the interleaving of the requests in flight, the endpoint
\* of a create, update or partial update writes the payload that was validated for
\* its own request: it ends (stored rows and error) as create or update does on
\* the table it found with that request's payload.
C11_Original ==
    (EndpointRan /\ resp.action \in WriteActions)
        => /\ resp.error = OwnOutcome.error
           /\ resp.post = OwnOutcome.rows

(***************************************************************************)
(* Properties of the viewset construction                                  *)
(***************************************************************************)
\* the URL prefix of each model, written out
ExpectedPrefix(m) ==
    CASE m = "Parent" -> "/parent_test_model"
      [] m = "Test"   -> "/test_model"
      [] m = "Child"  -> "/child_test_model"
      [] m = "Tag"    -> "/tag"
      [] m = "Note"   -> "/note"
      [] m = "Node"   -> "/node"
      [] m = "Author" -> "/author"
      [] m = "Book"   -> "/book"

Requested == {built.actions[i] : i \in DOMAIN built.actions}

\* C10: for known actions the viewset holds exactly one view per distinct action,
\* each bound to the model, and the application gains one route per view under
\* '/' + snake_case(model name); for an empty `actions` construction raises
\* AssertionError and the application's routes are as before.
C10_ViewSetConstruction ==
    (built.op = "viewset" /\ Requested \subseteq ActionNames) =>
        IF Requested = {}
        THEN built.error = "AssertionError" /\ routes = built.before
        ELSE /\ built.error = ""
             /\ Len(built.views) = Cardinality(Requested)
             /\ \A a \in Requested :
                    Cardinality({i \in DOMAIN built.views : built.views[i].action = a}) = 1
             /\ \A i \in DOMAIN built.views : built.views[i].MODEL = built.model
             /\ Len(routes) = Len(built.before) + Len(built.views)
             /\ SubSeq(routes, 1, Len(built.before)) = built.before
             /\ \A i \in DOMAIN built.views :
                    LET r == routes[Len(built.before) + i]
                    IN  /\ r.endpoint = built.views[i]
                        /\ r.path = ExpectedPrefix(built.model)
                                    \o (IF built.views[i].action \in {"list", "create"}
                                        THEN "/" ELSE "/{pk}/")

\* C10 witness: an action is requested three times among others, for a model whose
\* name has three capitals
C10_Witness ==
    /\ built.op = "viewset" /\ built.model = "Child"
    /\ built.actions = <<"list", "retrieve", "list", "list">>
    /\ Len(built.views) = 2
    /\ Len(routes) = 2 /\ routes[1].path = "/child_test_model/"

====
